---- MODULE Spec2Model ----
(***************************************************************************)
(* Model of tools/cassandra/handler.go: the version-compatibility check,   *)
(* the CLI handlers setupSchema / updateSchema / createKeyspace and the    *)
(* configuration validation.  One invocation of one entry point is a       *)
(* behaviour: Init picks the entry point, its arguments and the state of   *)
(* the backend; the actions are the statements of the handlers.            *)
(*                                                                         *)
(* Strings that the code only compares with "" or with a literal are TLA+  *)
(* strings.  A schema version "major.minor.patch" is the sequence of its   *)
(* three numeric components.  An error message is the sequence of the      *)
(* pieces it is concatenated from.  A nil pointer is the empty sequence    *)
(* and a non-nil pointer the one-element sequence of the value it points   *)
(* to.                                                                     *)
(***************************************************************************)
EXTENDS Integers, Sequences, FiniteSets, TLC

\* ------------------------------------------------------------------------
\* Bounds of the model
\* ------------------------------------------------------------------------
\* ports and replication factors (Go int) range over -MaxInt..MaxInt
MaxInt == 1
\* each component of a schema version ranges over 0..MaxVer
MaxVer == 1

Ints == (0 - MaxInt)..MaxInt
Versions == (0..MaxVer) \X (0..MaxVer) \X (0..MaxVer)
NoVersion == <<>>

\* ------------------------------------------------------------------------
\* Constants of the program
\* ------------------------------------------------------------------------
defaultNumReplicas == 1
DefaultCassandraPort == 9042
DefaultTimeout == 30
DefaultConnectTimeout == 2
SystemKeyspace == "system"
\* schema/cassandra.Version and VisibilityVersion: the versions the binary
\* expects of the default and of the visibility keyspace
Version == <<1, 0, 0>>
VisibilityVersion == <<0, 1, 0>>

\* the option names of tools/common/schema used in the messages
CLIOptEndpoint == "endpoint"
CLIOptKeyspace == "keyspace"

\* ------------------------------------------------------------------------
\* Errors
\* ------------------------------------------------------------------------
error(t, m) == [type |-> t, msg |-> m, installed |-> NoVersion, expected |-> NoVersion]
nil == error("nil", <<>>)
\* schema.NewConfigError(msg)
NewConfigError(m) == error("ConfigError", m)
\* fmt.Errorf(prefix + "%v", e): a new plain error whose text is the prefix
\* followed by the text of e
Errorf(prefix, m) == error("errorString", <<prefix>> \o m)
\* the failure gocql reports when no session can be created
connectError == error("gocql", <<"no hosts available">>)
\* a failure reported by the backend for a statement
backendError == error("backend", <<"statement failed">>)

flag(opt) == <<"(-", opt, ")">>

\* ------------------------------------------------------------------------
\* validateCQLClientConfig(config *CQLClientConfig): the error returned and
\* the config the pointer refers to afterwards
\* ------------------------------------------------------------------------
validateCQLClientConfig_NoKeyspaceCheck(config) ==
  IF config.Hosts = ""
  THEN [err |-> NewConfigError(<<"missing cassandra endpoint argument ">> \o flag(CLIOptEndpoint)),
        config |-> config]
  ELSE [err |-> nil,
        config |-> [config EXCEPT
                      !.Port = IF @ = 0 THEN DefaultCassandraPort ELSE @,
                      !.NumReplicas = IF @ = 0 THEN defaultNumReplicas ELSE @]]

validateCQLClientConfig_DefaultNonZero(config) ==
  IF config.Hosts = ""
  THEN [err |-> NewConfigError(<<"missing cassandra endpoint argument ">> \o flag(CLIOptEndpoint)),
        config |-> config]
  ELSE IF config.Keyspace = ""
  THEN [err |-> NewConfigError(<<"missing ">> \o flag(CLIOptKeyspace) \o <<" argument ">>),
        config |-> config]
  ELSE [err |-> nil,
        config |-> [config EXCEPT
                      !.Port = IF @ # 0 THEN DefaultCassandraPort ELSE @,
                      !.NumReplicas = IF @ = 0 THEN defaultNumReplicas ELSE @]]

validateCQLClientConfig(config) ==
  IF config.Hosts = ""
  THEN [err |-> NewConfigError(<<"missing cassandra endpoint argument ">> \o flag(CLIOptEndpoint)),
        config |-> config]
  ELSE IF config.Keyspace = ""
  THEN [err |-> NewConfigError(<<"missing ">> \o flag(CLIOptKeyspace) \o <<" argument ">>),
        config |-> config]
  ELSE [err |-> nil,
        config |-> [config EXCEPT
                      !.Port = IF @ = 0 THEN DefaultCassandraPort ELSE @,
                      !.NumReplicas = IF @ = 0 THEN defaultNumReplicas ELSE @]]

\* ------------------------------------------------------------------------
\* The command line (urfave/cli Context): the global options, and the
\* options of the sub-command (keyspace, datacenter, replication factor)
\* ------------------------------------------------------------------------
Cli(e, p, k, rf, tls, lk, dc) ==
  [endpoint |-> e, port |-> p, user |-> "", password |-> "",
   allowedAuthenticators |-> <<>>, timeout |-> DefaultTimeout,
   connectTimeout |-> DefaultConnectTimeout, keyspace |-> k,
   replicationFactor |-> rf, protoVersion |-> 0, enableTLS |-> tls,
   localKeyspace |-> lk, datacenter |-> dc]

NoCli == Cli("", 0, "", 0, FALSE, "", "")

\* the TLS block built when the TLS flag is set
cliTLS == [Enabled |-> TRUE, CertFile |-> "", KeyFile |-> "", CaFile |-> "",
           EnableHostVerification |-> FALSE, ServerName |-> ""]

\* the CQLClientConfig filled from the command line, before validation
cqlConfigOf(c) ==
  [Hosts |-> c.endpoint, Port |-> c.port, User |-> c.user,
   Password |-> c.password, AllowedAuthenticators |-> c.allowedAuthenticators,
   Timeout |-> c.timeout, ConnectTimeout |-> c.connectTimeout,
   Keyspace |-> c.keyspace, NumReplicas |-> c.replicationFactor,
   ProtoVersion |-> c.protoVersion,
   TLS |-> IF c.enableTLS THEN <<cliTLS>> ELSE <<>>]

NoConfig == cqlConfigOf(NoCli)

\* newCQLClientConfig(cli): (nil, err) or (config, nil)
newCQLClientConfig(c) ==
  LET v == validateCQLClientConfig(cqlConfigOf(c))
  IN  IF v.err # nil THEN [config |-> <<>>, err |-> v.err]
      ELSE [config |-> <<v.config>>, err |-> nil]

\* ------------------------------------------------------------------------
\* common/config: Cassandra (the NoSQL payload of a datastore), DataStore
\* and Persistence
\* ------------------------------------------------------------------------
Cassandra(plugin, hosts, keyspace) ==
  [PluginName |-> plugin, Hosts |-> hosts, Port |-> 0, User |-> "",
   Password |-> "", Keyspace |-> keyspace, AllowedAuthenticators |-> <<>>,
   TLS |-> <<>>, ProtoVersion |-> 0]

NoCassandra == Cassandra("", "", "")

\* a datastore of another backend (NoSQL == nil), one of this backend, and
\* one that fills the NoSQL slot with another plugin
DataStoresFor(keyspace) ==
  { [NoSQL |-> <<>>],
    [NoSQL |-> <<Cassandra("cassandra", "h1", keyspace)>>],
    [NoSQL |-> <<Cassandra("mongodb", "h1", keyspace)>>] }

KeyspaceOf == [default |-> "k1", visibility |-> "k2"]

Persistences ==
  { [DefaultStore |-> "default", VisibilityStore |-> "visibility", DataStores |-> m] :
      m \in UNION { { f \in [S -> UNION { DataStoresFor(KeyspaceOf[n]) : n \in S }] :
                        \A n \in S : f[n] \in DataStoresFor(KeyspaceOf[n]) } :
                    S \in SUBSET {"default", "visibility"} } }

NoPersistence == [DefaultStore |-> "", VisibilityStore |-> "", DataStores |-> <<>>]

\* ------------------------------------------------------------------------
\* tools/common/schema: the comparison of two versions and the check of the
\* installed version against the expected one
\* ------------------------------------------------------------------------
\* -1, 0 or 1 as a is older than, equal to or newer than b, comparing the
\* major, then the minor, then the patch component as numbers
cmpVersion(a, b) ==
  IF a[1] # b[1] THEN (IF a[1] < b[1] THEN 0 - 1 ELSE 1)
  ELSE IF a[2] # b[2] THEN (IF a[2] < b[2] THEN 0 - 1 ELSE 1)
  ELSE IF a[3] # b[3] THEN (IF a[3] < b[3] THEN 0 - 1 ELSE 1)
  ELSE 0

\* schema.VerifyCompatibleVersion(client, dbName, expectedVersion), given the
\* version the client reads (NoVersion: the read fails)
schemaVerifyCompatibleVersion(version, dbName, expected) ==
  IF version = NoVersion
  THEN Errorf("unable to read DB schema version keyspace/database: ", <<dbName>>)
  ELSE IF cmpVersion(version, expected) < 0
  THEN [type |-> "VersionMismatch", msg |-> <<"version mismatch for keyspace/database: ", dbName>>,
        installed |-> version, expected |-> expected]
  ELSE nil

\* ------------------------------------------------------------------------
\* State
\* ------------------------------------------------------------------------
VARIABLES
  op,               \* the entry point that was invoked
  pc,               \* the statement it is at
  stage,            \* VerifyCompatibleVersion: the store being checked
  persistence,      \* VerifyCompatibleVersion: its argument
  cassandraCfg,     \* CheckCompatibleVersion: cfg
  expectedVersion,  \* CheckCompatibleVersion: expectedVersion
  cli,              \* the command line of a CLI handler
  input,            \* validateCQLClientConfig: the config as first passed
  config,           \* the CQLClientConfig of a CLI handler / under validation
  cfg,              \* doCreateKeyspace: its copy of the config
  name,             \* doCreateKeyspace: the keyspace to create
  datacenter,       \* doCreateKeyspace: the datacenter
  reachable,        \* backend: keyspaces a session can be opened on
  installed,        \* backend: schema version recorded in each keyspace
  attempts,         \* the calls of NewCQLClient so far
  clients,          \* the clients created so far
  client,           \* the client of the running function (0: none)
  calls,            \* the calls made on clients so far
  err,              \* the value the running function is about to return
  ret,              \* the value returned by the entry point
  logged            \* what handleErr printed

vars == <<op, pc, stage, persistence, cassandraCfg, expectedVersion, cli, input,
          config, cfg, name, datacenter, reachable, installed, attempts,
          clients, client, calls, err, ret, logged>>

pending == error("pending", <<>>)

args == <<persistence, cassandraCfg, expectedVersion, cli, input, name, datacenter>>
backend == <<reachable, installed>>

Call(method, n, dc) ==
  [client |-> client, method |-> method, name |-> n, datacenter |-> dc,
   replicas |-> clients[client].cfg.NumReplicas,
   closed |-> clients[client].closes > 0]

\* NewCQLClient(c): a session is opened on the keyspace of the config
NewCQLClientFails(c) == c.Keyspace \notin reachable

\* client.Close()
Close == clients' = [clients EXCEPT ![client].closes = @ + 1]

\* handleErr(e): prints e and returns it
handleErr(e) == logged' = Append(logged, e)

Start(o, p, pers, cc, ev, c, conf, reach, inst) ==
  /\ op = o
  /\ pc = p
  /\ stage = ""
  /\ persistence = pers
  /\ cassandraCfg = cc
  /\ expectedVersion = ev
  /\ cli = c
  /\ input = conf
  /\ config = conf
  /\ cfg = NoConfig
  /\ name = ""
  /\ datacenter = ""
  /\ reachable = reach
  /\ installed = inst
  /\ attempts = <<>>
  /\ clients = <<>>
  /\ client = 0
  /\ calls = <<>>
  /\ err = nil
  /\ ret = pending
  /\ logged = <<>>

NothingInstalled == [k \in {"k1", "k2"} |-> NoVersion]

\* the command lines of setup-schema and update-schema, and of create-keyspace
SchemaClis ==
  { Cli(e, p, k, 0, tls, "", "") :
      e \in {"", "h1"}, p \in Ints, k \in {"", "k1"}, tls \in BOOLEAN }
KeyspaceClis ==
  { Cli(e, p, k, rf, FALSE, lk, dc) :
      e \in {"", "h1"}, p \in Ints, k \in {"", "k1"}, rf \in Ints,
      lk \in {"", "k2"}, dc \in {"", "dc1"} }
\* the configs validateCQLClientConfig is applied to
Configs ==
  { cqlConfigOf(Cli(e, p, k, rf, tls, "", "")) :
      e \in {"", "h1"}, p \in Ints, k \in {"", "k1"}, rf \in Ints, tls \in BOOLEAN }

Init ==
  \/ \E pers \in Persistences, reach \in SUBSET {"k1", "k2"},
        inst \in [{"k1", "k2"} -> Versions \cup {NoVersion}] :
       Start("VerifyCompatibleVersion", "default", pers, NoCassandra, NoVersion,
             NoCli, NoConfig, reach, inst)
  \/ \E ev \in Versions, reach \in SUBSET {"k1"}, v \in Versions \cup {NoVersion} :
       Start("CheckCompatibleVersion", "check_new", NoPersistence,
             Cassandra("cassandra", "h1", "k1"), ev, NoCli, NoConfig, reach,
             [NothingInstalled EXCEPT !["k1"] = v])
  \/ \E o \in {"setupSchema", "updateSchema"}, c \in SchemaClis, reach \in SUBSET {"k1"} :
       Start(o, "config", NoPersistence, NoCassandra, NoVersion, c, NoConfig,
             reach, NothingInstalled)
  \/ \E c \in KeyspaceClis, reach \in SUBSET {SystemKeyspace} :
       Start("createKeyspace", "config", NoPersistence, NoCassandra, NoVersion, c,
             NoConfig, reach, NothingInstalled)
  \/ \E conf \in Configs :
       Start("validateCQLClientConfig", "v1", NoPersistence, NoCassandra,
             NoVersion, NoCli, conf, {}, NothingInstalled)

\* ------------------------------------------------------------------------
\* VerifyCompatibleVersion / verifyCompatibleVersion
\* ------------------------------------------------------------------------
\* verifyCompatibleVersion(ds, expected) up to its call of
\* CheckCompatibleVersion: whether it makes the call, and what it returns
\* when it does not
verifyCompatibleVersion_NoPluginCheck(ds) ==
  IF ds.NoSQL = <<>>
  THEN [check |-> FALSE, err |-> nil]
  ELSE [check |-> TRUE, err |-> nil]

verifyCompatibleVersion(ds) ==
  IF ds.NoSQL = <<>>
  THEN [check |-> FALSE, err |-> nil]
  ELSE IF ds.NoSQL[1].PluginName # "cassandra"
  THEN [check |-> FALSE,
        err |-> Errorf("unknown NoSQL plugin name: ", <<ds.NoSQL[1].PluginName>>)]
  ELSE [check |-> TRUE, err |-> nil]

\* what VerifyCompatibleVersion does with the result e of the check of the
\* store st: return it, go on to the visibility store, or return nil
VerifyReturn_IgnoreVisibility(st, e) ==
  IF st = "default" /\ e # nil THEN [pc |-> "done", ret |-> e]
  ELSE IF st = "default" THEN [pc |-> "visibility", ret |-> pending]
  ELSE [pc |-> "done", ret |-> nil]

VerifyReturn_NoFailFast(st, e) ==
  IF st = "default" THEN [pc |-> "visibility", ret |-> pending]
  ELSE IF e # nil THEN [pc |-> "done", ret |-> e]
  ELSE [pc |-> "done", ret |-> nil]

VerifyReturn(st, e) ==
  IF e # nil THEN [pc |-> "done", ret |-> e]
  ELSE IF st = "default" THEN [pc |-> "visibility", ret |-> pending]
  ELSE [pc |-> "done", ret |-> nil]

\* one of the two blocks of VerifyCompatibleVersion
VerifyStore(st, store, expected) ==
  /\ op = "VerifyCompatibleVersion"
  /\ pc = st
  /\ stage' = st
  /\ IF store \in DOMAIN persistence.DataStores
     THEN LET ds == persistence.DataStores[store]
              v == verifyCompatibleVersion(ds)
              r == VerifyReturn(st, v.err)
          IN  IF v.check
              THEN /\ cassandraCfg' = ds.NoSQL[1]
                   /\ expectedVersion' = expected
                   /\ pc' = "check_new"
                   /\ ret' = ret
              ELSE /\ pc' = r.pc
                   /\ ret' = r.ret
                   /\ UNCHANGED <<cassandraCfg, expectedVersion>>
     ELSE LET r == VerifyReturn(st, nil)
          IN  /\ pc' = r.pc
              /\ ret' = r.ret
              /\ UNCHANGED <<cassandraCfg, expectedVersion>>
  /\ UNCHANGED <<op, persistence, cli, input, config, cfg, name, datacenter,
                 backend, attempts, clients, client, calls, err, logged>>

VerifyDefault == VerifyStore("default", persistence.DefaultStore, Version)

VerifyVisibility == VerifyStore("visibility", persistence.VisibilityStore, VisibilityVersion)

\* ------------------------------------------------------------------------
\* CheckCompatibleVersion
\* ------------------------------------------------------------------------
\* the caller's continuation with the value e CheckCompatibleVersion returns
CheckReturn(e) ==
  IF op = "CheckCompatibleVersion" THEN [pc |-> "done", ret |-> e]
  ELSE VerifyReturn(stage, e)

\* the CQLClientConfig CheckCompatibleVersion builds from cfg
checkClientConfig(c) ==
  [Hosts |-> c.Hosts, Port |-> c.Port, User |-> c.User, Password |-> c.Password,
   AllowedAuthenticators |-> c.AllowedAuthenticators,
   Timeout |-> DefaultTimeout, ConnectTimeout |-> DefaultConnectTimeout,
   Keyspace |-> c.Keyspace, NumReplicas |-> 0, ProtoVersion |-> c.ProtoVersion,
   TLS |-> c.TLS]

\* the error returned when NewCQLClient fails with e
checkClientError_Unwrapped(e) == e

checkClientError(e) == Errorf("unable to create CQL Client: ", e.msg)

CheckNewClient ==
  /\ pc = "check_new"
  /\ LET c == checkClientConfig(cassandraCfg)
     IN  IF NewCQLClientFails(c)
         THEN LET r == CheckReturn(checkClientError(connectError))
              IN  /\ attempts' = Append(attempts, [cfg |-> c, ok |-> FALSE])
                  /\ pc' = r.pc
                  /\ ret' = r.ret
                  /\ UNCHANGED <<clients, client>>
         ELSE /\ attempts' = Append(attempts, [cfg |-> c, ok |-> TRUE])
              /\ clients' = Append(clients, [cfg |-> c, closes |-> 0])
              /\ client' = Len(clients) + 1
              /\ pc' = "check_verify"
              /\ ret' = ret
  /\ UNCHANGED <<op, stage, args, config, cfg, backend, calls, err, logged>>

\* return schema.VerifyCompatibleVersion(client, cfg.Keyspace, expectedVersion):
\* the return value is computed, the deferred Close is still to run
CheckVerify_IgnoreResult ==
  /\ pc = "check_verify"
  /\ calls' = Append(calls, Call("ReadSchemaVersion", "", ""))
  /\ err' = nil
  /\ pc' = "check_close"
  /\ UNCHANGED <<op, stage, args, config, cfg, backend, attempts, clients,
                 client, ret, logged>>

CheckVerify ==
  /\ pc = "check_verify"
  /\ calls' = Append(calls, Call("ReadSchemaVersion", "", ""))
  /\ err' = schemaVerifyCompatibleVersion(installed[clients[client].cfg.Keyspace],
                                          cassandraCfg.Keyspace, expectedVersion)
  /\ pc' = "check_close"
  /\ UNCHANGED <<op, stage, args, config, cfg, backend, attempts, clients,
                 client, ret, logged>>

\* defer client.Close(), then the return to the caller
CheckClose_NoClose ==
  /\ pc = "check_close"
  /\ LET r == CheckReturn(err)
     IN  /\ pc' = r.pc
         /\ ret' = r.ret
  /\ client' = 0
  /\ err' = nil
  /\ UNCHANGED <<op, stage, args, config, cfg, backend, attempts, clients, calls, logged>>

CheckClose ==
  /\ pc = "check_close"
  /\ Close
  /\ LET r == CheckReturn(err)
     IN  /\ pc' = r.pc
         /\ ret' = r.ret
  /\ client' = 0
  /\ err' = nil
  /\ UNCHANGED <<op, stage, args, config, cfg, backend, attempts, calls, logged>>

\* ------------------------------------------------------------------------
\* setupSchema / updateSchema
\* ------------------------------------------------------------------------
SchemaOps == {"setupSchema", "updateSchema"}

\* config, err := newCQLClientConfig(cli)
SchemaConfig(o) ==
  /\ op = o
  /\ pc = "config"
  /\ LET r == newCQLClientConfig(cli)
     IN  IF r.err # nil
         THEN /\ ret' = NewConfigError(r.err.msg)
              /\ handleErr(ret')
              /\ pc' = "done"
              /\ config' = config
         ELSE /\ config' = r.config[1]
              /\ pc' = "new"
              /\ UNCHANGED <<ret, logged>>
  /\ UNCHANGED <<op, stage, args, cfg, backend, attempts, clients, client, calls, err>>

\* client, err := NewCQLClient(config)
SchemaNewClient(o) ==
  /\ op = o
  /\ pc = "new"
  /\ IF NewCQLClientFails(config)
     THEN /\ attempts' = Append(attempts, [cfg |-> config, ok |-> FALSE])
          /\ ret' = connectError
          /\ handleErr(ret')
          /\ pc' = "done"
          /\ UNCHANGED <<clients, client>>
     ELSE /\ attempts' = Append(attempts, [cfg |-> config, ok |-> TRUE])
          /\ clients' = Append(clients, [cfg |-> config, closes |-> 0])
          /\ client' = Len(clients) + 1
          /\ pc' = "run"
          /\ UNCHANGED <<ret, logged>>
  /\ UNCHANGED <<op, stage, args, config, cfg, backend, calls, err>>

\* if err := schema.Setup(cli, client) / schema.Update(cli, client): the
\* migration engine works on the client and succeeds or fails; a failure is
\* passed to handleErr, and the deferred Close is still to run
SchemaRun(o) ==
  /\ op = o
  /\ pc = "run"
  /\ calls' = Append(calls, Call(IF o = "setupSchema" THEN "Setup" ELSE "Update", "", ""))
  /\ \E e \in {nil, backendError} :
       /\ err' = e
       /\ IF e # nil THEN handleErr(e) ELSE logged' = logged
  /\ pc' = "close"
  /\ UNCHANGED <<op, stage, args, config, cfg, backend, attempts, clients,
                 client, ret>>

\* the deferred client.Close(), then the return of handleErr(err) or of nil
SchemaClose(o) ==
  /\ op = o
  /\ pc = "close"
  /\ Close
  /\ ret' = err
  /\ logged' = logged
  /\ pc' = "done"
  /\ client' = 0
  /\ err' = nil
  /\ UNCHANGED <<op, stage, args, config, cfg, backend, attempts, calls>>

SetupConfig == SchemaConfig("setupSchema")
SetupNewClient == SchemaNewClient("setupSchema")
SetupRun == SchemaRun("setupSchema")
SetupClose == SchemaClose("setupSchema")
UpdateConfig == SchemaConfig("updateSchema")
UpdateNewClient == SchemaNewClient("updateSchema")
UpdateRun == SchemaRun("updateSchema")
UpdateClose == SchemaClose("updateSchema")

\* ------------------------------------------------------------------------
\* createKeyspace / doCreateKeyspace
\* ------------------------------------------------------------------------
\* createKeyspace up to its call of doCreateKeyspace, and the first
\* statement of doCreateKeyspace (the keyspace of its copy of the config)
CreateKeyspaceConfig ==
  /\ op = "createKeyspace"
  /\ pc = "config"
  /\ LET r == newCQLClientConfig(cli)
     IN  IF r.err # nil
         THEN /\ ret' = NewConfigError(r.err.msg)
              /\ handleErr(ret')
              /\ pc' = "done"
              /\ UNCHANGED <<config, cfg, name, datacenter>>
         ELSE IF cli.localKeyspace = ""
         THEN /\ ret' = NewConfigError(<<"missing ">> \o flag(CLIOptKeyspace) \o <<" argument ">>)
              /\ handleErr(ret')
              /\ pc' = "done"
              /\ config' = r.config[1]
              /\ UNCHANGED <<cfg, name, datacenter>>
         ELSE /\ config' = r.config[1]
              /\ name' = cli.localKeyspace
              /\ datacenter' = cli.datacenter
              /\ cfg' = [r.config[1] EXCEPT !.Keyspace = SystemKeyspace]
              /\ pc' = "dck_new"
              /\ UNCHANGED <<ret, logged>>
  /\ UNCHANGED <<op, stage, persistence, cassandraCfg, expectedVersion, cli,
                 input, backend, attempts, clients, client, calls, err>>

\* createKeyspace's handling of the error e of doCreateKeyspace
createKeyspaceError(e) == Errorf("error creating Keyspace:", e.msg)

\* client, err := NewCQLClient(&cfg)
DoCreateKeyspaceNewClient ==
  /\ pc = "dck_new"
  /\ IF NewCQLClientFails(cfg)
     THEN /\ attempts' = Append(attempts, [cfg |-> cfg, ok |-> FALSE])
          /\ ret' = createKeyspaceError(connectError)
          /\ handleErr(ret')
          /\ pc' = "done"
          /\ UNCHANGED <<clients, client>>
     ELSE /\ attempts' = Append(attempts, [cfg |-> cfg, ok |-> TRUE])
          /\ clients' = Append(clients, [cfg |-> cfg, closes |-> 0])
          /\ client' = Len(clients) + 1
          /\ pc' = "dck_create"
          /\ UNCHANGED <<ret, logged>>
  /\ UNCHANGED <<op, stage, args, config, cfg, backend, calls, err>>

\* return client.CreateNTSKeyspace(name, datacenter) or
\* return client.CreateKeyspace(name); the backend accepts or rejects it
DoCreateKeyspaceCreate_Inverted ==
  /\ pc = "dck_create"
  /\ calls' = Append(calls, IF datacenter = ""
                            THEN Call("CreateNTSKeyspace", name, datacenter)
                            ELSE Call("CreateKeyspace", name, ""))
  /\ \E e \in {nil, backendError} : err' = e
  /\ pc' = "dck_close"
  /\ UNCHANGED <<op, stage, args, config, cfg, backend, attempts, clients,
                 client, ret, logged>>

DoCreateKeyspaceCreate ==
  /\ pc = "dck_create"
  /\ calls' = Append(calls, IF datacenter # ""
                            THEN Call("CreateNTSKeyspace", name, datacenter)
                            ELSE Call("CreateKeyspace", name, ""))
  /\ \E e \in {nil, backendError} : err' = e
  /\ pc' = "dck_close"
  /\ UNCHANGED <<op, stage, args, config, cfg, backend, attempts, clients,
                 client, ret, logged>>

\* the deferred client.Close(), then the return to createKeyspace
DoCreateKeyspaceClose ==
  /\ pc = "dck_close"
  /\ Close
  /\ IF err # nil
     THEN /\ ret' = createKeyspaceError(err)
          /\ handleErr(ret')
     ELSE /\ ret' = nil
          /\ logged' = logged
  /\ pc' = "done"
  /\ client' = 0
  /\ err' = nil
  /\ UNCHANGED <<op, stage, args, config, cfg, backend, attempts, calls>>

\* ------------------------------------------------------------------------
\* validateCQLClientConfig applied to a config, and applied again
\* ------------------------------------------------------------------------
Validate ==
  /\ op = "validateCQLClientConfig"
  /\ pc \in {"v1", "v2"}
  /\ LET r == validateCQLClientConfig(config)
     IN  /\ config' = r.config
         /\ ret' = r.err
  /\ pc' = IF pc = "v1" THEN "v2" ELSE "done"
  /\ UNCHANGED <<op, stage, args, cfg, backend, attempts, clients, client,
                 calls, err, logged>>

Next ==
  \/ VerifyDefault
  \/ VerifyVisibility
  \/ CheckNewClient
  \/ CheckVerify
  \/ CheckClose
  \/ SetupConfig
  \/ SetupNewClient
  \/ SetupRun
  \/ SetupClose
  \/ UpdateConfig
  \/ UpdateNewClient
  \/ UpdateRun
  \/ UpdateClose
  \/ CreateKeyspaceConfig
  \/ DoCreateKeyspaceNewClient
  \/ DoCreateKeyspaceCreate
  \/ DoCreateKeyspaceClose
  \/ Validate

Spec == Init /\ [][Next]_vars

TypeOK ==
  /\ pc \in {"default", "visibility", "check_new", "check_verify", "check_close",
             "config", "new", "run", "close", "dck_new", "dck_create",
             "dck_close", "v1", "v2", "done"}
  /\ client \in 0..Len(clients)
  /\ Len(clients) <= Len(attempts)

\* ------------------------------------------------------------------------
\* Properties
\* ------------------------------------------------------------------------
Done == pc = "done"

\* a is strictly older than b in the numeric order of semantic versions
Older(a, b) ==
  \/ a[1] < b[1]
  \/ a[1] = b[1] /\ a[2] < b[2]
  \/ a[1] = b[1] /\ a[2] = b[2] /\ a[3] < b[3]

Stores == {"default", "visibility"}
StoreName(st) == IF st = "default" THEN persistence.DefaultStore ELSE persistence.VisibilityStore
Expected(st) == IF st = "default" THEN Version ELSE VisibilityVersion
Present(st) == StoreName(st) \in DOMAIN persistence.DataStores
\* the store is configured and its descriptor carries the NoSQL payload
Applicable(st) == Present(st) /\ persistence.DataStores[StoreName(st)].NoSQL # <<>>
NoSQLOf(st) == persistence.DataStores[StoreName(st)].NoSQL[1]
WrongPlugin(st) == Applicable(st) /\ NoSQLOf(st).PluginName # "cassandra"
\* the store passes: right plugin, a client can be created, the version can
\* be read and is not older than expected
Passes(st) ==
  /\ NoSQLOf(st).PluginName = "cassandra"
  /\ NoSQLOf(st).Keyspace \in reachable
  /\ installed[NoSQLOf(st).Keyspace] # NoVersion
  /\ ~Older(installed[NoSQLOf(st).Keyspace], Expected(st))
\* nothing was done for the store: no client creation, no call on a client
Untouched(st) ==
  /\ \A i \in 1..Len(attempts) : attempts[i].cfg.Keyspace # KeyspaceOf[st]
  /\ \A i \in 1..Len(calls) : clients[calls[i].client].cfg.Keyspace # KeyspaceOf[st]
\* the error the check of a failing store is to produce
StoreError(st) ==
  IF NoSQLOf(st).PluginName # "cassandra"
  THEN Errorf("unknown NoSQL plugin name: ", <<NoSQLOf(st).PluginName>>)
  ELSE IF NoSQLOf(st).Keyspace \notin reachable
  THEN Errorf("unable to create CQL Client: ", connectError.msg)
  ELSE IF installed[NoSQLOf(st).Keyspace] = NoVersion
  THEN Errorf("unable to read DB schema version keyspace/database: ", <<NoSQLOf(st).Keyspace>>)
  ELSE [type |-> "VersionMismatch",
        msg |-> <<"version mismatch for keyspace/database: ", NoSQLOf(st).Keyspace>>,
        installed |-> installed[NoSQLOf(st).Keyspace], expected |-> Expected(st)]

CreationFailed == \E i \in 1..Len(attempts) : ~attempts[i].ok
Opened == { i \in 1..Len(clients) : clients[i].closes = 0 }

\* C1: when the client was created and the installed version was read,
\* CheckCompatibleVersion returns a version-mismatch error iff the installed
\* version of cfg.Keyspace is strictly older than the expected one, and nil
\* for every installed version equal to or newer than expected.  Stated of
\* the value about to be returned (the deferred Close pending) and of the
\* value returned by the entry point.
C1_MismatchIffOlder ==
  LET inst == installed[cassandraCfg.Keyspace]
      Right(e) == /\ (e.type = "VersionMismatch") <=> Older(inst, expectedVersion)
                  /\ ~Older(inst, expectedVersion) => e = nil
  IN  /\ (pc = "check_close" /\ inst # NoVersion) => Right(err)
      /\ (op = "CheckCompatibleVersion" /\ Done /\ ~CreationFailed /\ inst # NoVersion)
           => Right(ret)

C1_Witness ==
  /\ op = "CheckCompatibleVersion"
  /\ Done
  /\ ~CreationFailed
  /\ installed[cassandraCfg.Keyspace] = <<0, 1, 1>>
  /\ expectedVersion = <<1, 0, 0>>
  /\ ret.type = "VersionMismatch"

\* C2: VerifyCompatibleVersion returns nil iff every applicable store (present
\* in DataStores, NoSQL payload present) passes its check; for a store that
\* is absent or of another backend no client is ever created and no call made.
C2_NilIffAllApplicablePass ==
  op = "VerifyCompatibleVersion" =>
    /\ \A st \in Stores : ~Applicable(st) => Untouched(st)
    /\ Done => ((ret = nil) <=> \A st \in Stores : Applicable(st) => Passes(st))

C2_Witness ==
  /\ op = "VerifyCompatibleVersion"
  /\ Done
  /\ ret = nil
  /\ Present("default")
  /\ ~Applicable("default")
  /\ Applicable("visibility")
  /\ Len(clients) = 1

\* C3: a store whose descriptor has the NoSQL payload but a plugin name other
\* than "cassandra" makes the verification fail; when the verification gets
\* to that store the error is the unknown-plugin error, and at no time is a
\* client created or a call made for that store.
C3_WrongPluginFailsBeforeClient ==
  op = "VerifyCompatibleVersion" =>
    \A st \in Stores :
      WrongPlugin(st) =>
        /\ Untouched(st)
        /\ Done => ret # nil
        /\ (Done /\ stage = st) =>
             ret = Errorf("unknown NoSQL plugin name: ", <<NoSQLOf(st).PluginName>>)

C3_Witness ==
  /\ op = "VerifyCompatibleVersion"
  /\ Done
  /\ stage = "visibility"
  /\ WrongPlugin("visibility")
  /\ Len(clients) = 1
  /\ ret.msg = <<"unknown NoSQL plugin name: ", "mongodb">>

\* C4: in every operation a client that was created is closed at most once
\* while the operation runs and exactly once when it has returned, whether
\* it returns nil or an error; no call is made on a closed client; a failed
\* creation yields no client, hence no Close.
C4_ClosedExactlyOnce ==
  /\ \A i \in 1..Len(clients) : clients[i].closes <= 1
  /\ Done => \A i \in 1..Len(clients) : clients[i].closes = 1
  /\ \A i \in 1..Len(calls) : ~calls[i].closed
  /\ Len(clients) = Cardinality({ i \in 1..Len(attempts) : attempts[i].ok })
  /\ client # 0 => clients[client].closes = 0

C4_Witness ==
  /\ Done
  /\ op = "VerifyCompatibleVersion"
  /\ Len(clients) = 2
  /\ ret # nil
  /\ clients[1].closes = 1
  /\ clients[2].closes = 1

\* C5: validateCQLClientConfig returns a ConfigError iff the hosts or the
\* keyspace of the config are empty, and nil otherwise.
C5_ConfigErrorIffEmpty ==
  (op = "validateCQLClientConfig" /\ pc \in {"v2", "done"}) =>
    /\ (ret.type = "ConfigError") <=> (input.Hosts = "" \/ input.Keyspace = "")
    /\ (input.Hosts # "" /\ input.Keyspace # "") => ret = nil
    /\ ret.type \in {"ConfigError", "nil"}

C5_Witness ==
  /\ op = "validateCQLClientConfig"
  /\ pc = "v2"
  /\ input.Hosts # ""
  /\ input.Keyspace = ""
  /\ ret.type = "ConfigError"

\* C6: for every input config, negative port and numReplicas included, a
\* successful validateCQLClientConfig leaves hosts non-empty, keyspace
\* non-empty, port > 0 and numReplicas >= 1.
C6_InvariantsAfterValidation ==
  (op = "validateCQLClientConfig" /\ pc \in {"v2", "done"} /\ ret = nil) =>
    /\ config.Hosts # ""
    /\ config.Keyspace # ""
    /\ config.Port > 0
    /\ config.NumReplicas >= 1

\* C7: doCreateKeyspace(cfg, name, datacenter) creates its client from cfg
\* with the keyspace replaced by the system keyspace, and on that client
\* makes exactly one creation call for name: CreateNTSKeyspace with the
\* datacenter if it is non-empty, CreateKeyspace if it is empty, with the
\* replica count of cfg.
C7_OneCreationCall ==
  op = "createKeyspace" =>
    /\ \A i \in 1..Len(attempts) :
         attempts[i].cfg = [config EXCEPT !.Keyspace = SystemKeyspace]
    /\ \A i \in 1..Len(clients) :
         clients[i].cfg = [config EXCEPT !.Keyspace = SystemKeyspace]
    /\ Len(attempts) <= 1
    /\ Len(calls) <= 1
    /\ (pc \in {"dck_close", "done"} /\ Len(clients) = 1) => Len(calls) = 1
    /\ \A i \in 1..Len(calls) :
         /\ calls[i].name = name
         /\ calls[i].replicas = config.NumReplicas
         /\ datacenter # "" => /\ calls[i].method = "CreateNTSKeyspace"
                               /\ calls[i].datacenter = datacenter
         /\ datacenter = "" => calls[i].method = "CreateKeyspace"

C7_Witness ==
  /\ op = "createKeyspace"
  /\ Done
  /\ datacenter = "dc1"
  /\ Len(calls) = 1
  /\ calls[1].method = "CreateNTSKeyspace"
  /\ calls[1].replicas = defaultNumReplicas
  /\ cli.replicationFactor = 0

\* C8 as stated: whenever client creation fails, in any operation, the error
\* returned wraps the failure with the context "unable to create ... client",
\* is not a ConfigError, and creation was attempted once.
C8_WrappedInEveryOperation ==
  (Done /\ CreationFailed) =>
    /\ ret.type \notin {"nil", "ConfigError"}
    /\ ret.msg = <<"unable to create CQL Client: ">> \o connectError.msg
    /\ ~attempts[Len(attempts)].ok
    /\ \A i \in 1..(Len(attempts) - 1) : attempts[i].ok

\* C8 amended: when client creation fails the operation ends with an error
\* that is not a ConfigError and without another attempt; the error wraps the
\* failure with "unable to create CQL Client: " in CheckCompatibleVersion
\* (and VerifyCompatibleVersion), is the failure itself in setupSchema and
\* updateSchema, and in createKeyspace is the failure wrapped with
\* "error creating Keyspace:".
C8_WrappedInCheckOnly ==
  /\ \A i \in 1..(Len(attempts) - 1) : attempts[i].ok
  /\ CreationFailed => Done
  /\ (Done /\ CreationFailed) =>
       /\ ret.type \notin {"nil", "ConfigError"}
       /\ op \in {"CheckCompatibleVersion", "VerifyCompatibleVersion"} =>
            ret = Errorf("unable to create CQL Client: ", connectError.msg)
       /\ op \in SchemaOps => ret = connectError
       /\ op = "createKeyspace" =>
            ret = Errorf("error creating Keyspace:", connectError.msg)

C8_Witness ==
  /\ op = "CheckCompatibleVersion"
  /\ Done
  /\ CreationFailed
  /\ ret.msg[1] = "unable to create CQL Client: "

\* C9: validating a config with non-empty hosts and keyspace, port # 0 and
\* numReplicas # 0 changes no field of it, and a second validation changes
\* neither the config nor the result of the first.
C9_Idempotent ==
  [][op = "validateCQLClientConfig" =>
       /\ (config.Hosts # "" /\ config.Keyspace # "" /\ config.Port # 0
             /\ config.NumReplicas # 0) => (config' = config /\ ret' = nil)
       /\ pc = "v2" => (config' = config /\ ret' = ret)]_vars

C9_Witness ==
  /\ op = "validateCQLClientConfig"
  /\ Done
  /\ input.Port = 0
  /\ input.NumReplicas = 0
  /\ config.Port = DefaultCassandraPort
  /\ config.NumReplicas = defaultNumReplicas
  /\ ret = nil

\* C10: VerifyCompatibleVersion checks the default store, then the visibility
\* store; when the check of the default store fails it returns that store's
\* error and nothing is done for the visibility store; at most one client is
\* open at any time.
C10_DefaultFirstFailFast ==
  op = "VerifyCompatibleVersion" =>
    /\ \A i, j \in 1..Len(attempts) :
         (attempts[i].cfg.Keyspace = KeyspaceOf["visibility"]
            /\ attempts[j].cfg.Keyspace = KeyspaceOf["default"]) => j < i
    /\ (pc = "default") => (Untouched("default") /\ Untouched("visibility"))
    /\ (Applicable("default") /\ ~Passes("default")) =>
         /\ Untouched("visibility")
         /\ Done => (ret = StoreError("default") /\ stage = "default")
    /\ Cardinality(Opened) <= 1

C10_Witness ==
  /\ op = "VerifyCompatibleVersion"
  /\ Done
  /\ Applicable("default")
  /\ ~Passes("default")
  /\ Applicable("visibility")
  /\ Passes("visibility")
  /\ Len(clients) = 1
  /\ ret.type = "VersionMismatch"

====
